---- MODULE Spec2Model ----
(***************************************************************************)
(* Model of src/app.py: the image-match scan bot.                          *)
(*                                                                         *)
(*   main()        load config, reference hashes and the seen ledger, then *)
(*                 loop forever: scan_once, sleep.                         *)
(*   scan_once()   for each query: call the enabled site scrapers, then    *)
(*                 match every new listing's images against the reference  *)
(*                 hashes, notify on a match and add the listing's id to   *)
(*                 the in-memory ledger; after all queries save the ledger.*)
(*                                                                         *)
(* The specifications share the definitions:                               *)
(*   Spec          one run of the process (startup, passes)                *)
(*   SpecRestart   runs separated by restarts                              *)
(*   SpecLoop      one run over every configured scan interval, with the   *)
(*                 fairness of a sequential program                        *)
(*   SpecBoot      startup alone, over a wide set of reference directories *)
(*                 and ledger file contents                                *)
(*   SpecMatch     the per-listing matching loop of scan_once, image by    *)
(*                 image                                                   *)
(*   SpecIdentity, SpecScrape, SpecRoundTrip                               *)
(*                 stable_id, the scrapers and save_seen/load_seen as      *)
(*                 functions of their inputs                               *)
(***************************************************************************)
EXTENDS Integers, Sequences, FiniteSets, TLC

(***************************************************************************)
(* Bounds of the model.                                                    *)
(***************************************************************************)
\* width of a perceptual hash in bits (64 in imagehash.phash)
HashBits == 2
\* files in the reference directory
MaxRefFiles == 2
\* image URLs of a listing handed to the matching loop (SpecMatch)
MaxImages == 4
\* anchors on one rendered search page
MaxCards == 2
\* the cap of save_seen, 30000 in the source, scaled down
N_max == 2
\* process restarts in one behaviour
MaxRestarts == 1
\* cfg["max_items_per_site"] (default 25)
Limit == 2
\* cfg["phash_distance_threshold"] (default 8) used by Spec
Threshold == 1

(***************************************************************************)
(* Program constants.                                                      *)
(***************************************************************************)
\* lst.image_urls[:3]
MaxImagesToCheck == 3
\* best_dist = 999
InitBestDist == 999
\* time.sleep(max(60, interval))
MinSleep == 60
\* cfg.get("scan_interval_seconds", 240)
DefaultInterval == 240

(***************************************************************************)
(* Generic helpers.                                                        *)
(***************************************************************************)
Range(s) == {s[i] : i \in 1..Len(s)}

MinOf(a, b) == IF a <= b THEN a ELSE b

MaxOf(a, b) == IF a >= b THEN a ELSE b

SetMin(S) == CHOOSE x \in S : \A y \in S : x <= y

\* Python's s[:n]
Prefix(s, n) == SubSeq(s, 1, MinOf(Len(s), MaxOf(n, 0)))

\* Python's s[-n:] for n > 0
Suffix(s, n) == SubSeq(s, MaxOf(1, Len(s) - n + 1), Len(s))

\* sequences over S of length at most n
SeqsUpTo(S, n) == UNION {[1..k -> S] : k \in 0..n}

(***************************************************************************)
(* Listing identity: sha256(f"{site}|{url}").hexdigest()[:24].             *)
(* The digest is a table of the real SHA-256 values of the encodings the   *)
(* model uses.                                                             *)
(***************************************************************************)
EncodePair(site, url) == site \o "|" \o url

Sha256Hex24(s) ==
  CASE s = "Mercari JP|https://jp.mercari.com/item/m1" -> "deb3eb4c4a6880ddf9b0871a"
    [] s = "Mercari JP|https://jp.mercari.com/item/m2" -> "7d9b2dc2f11cff1450236a93"
    [] s = "ZOZOUSED/ZOZO|https://zozo.jp/goods/1" -> "ac03a13e661945e4d873694b"
    [] s = "Grailed|https://www.grailed.com/listing/1" -> "851d4e144e71488d1c7bf6a0"
    [] s = "Mercari JP|https://a.sg/p/1" -> "790ab4249f06e53e3f36cb92"
    [] s = "Mercari JP|y)|https://a.sg/p/1" -> "f35ded339b8a7f6af239b5cc"
    [] s = "Mercari JP|https://a.sg/p/2" -> "eaea37d2ee3ffaba426165bf"
    [] s = "Carousell (a.sg/x)|https://jp.mercari.com/item/m1" -> "47d0129647038afd7931ce77"
    [] s = "Carousell (a.sg/x)|https://a.sg/p/1" -> "3deec3e98359bbaaaffe666f"
    [] s = "Carousell (a.sg/x)|y)|https://a.sg/p/1" -> "4cc0868e96ccf551d8f0e8b0"
    [] s = "Carousell (a.sg/x)|https://a.sg/p/2" -> "dab88a454d0342e1e4667d8f"
    [] s = "Carousell (a.sg/x)|y)|https://jp.mercari.com/item/m1" -> "90025b83fcd1374ec3f5ad09"
    [] s = "Carousell (a.sg/x)|y)|y)|https://a.sg/p/1" -> "27d87538801d785d3c752746"
    [] s = "Carousell (a.sg/x)|y)|https://a.sg/p/2" -> "3fc69c55be79bcf5958f180c"

stable_id(site, url) == Sha256Hex24(EncodePair(site, url))


\* every identity the model's listings can have
Ids ==
  {"deb3eb4c4a6880ddf9b0871a", "7d9b2dc2f11cff1450236a93", "ac03a13e661945e4d873694b"}

(***************************************************************************)
(* The ledger file seen.json.  A file is a record [kind, items]:           *)
(*   missing   no file                                                     *)
(*   invalid   bytes that json.load rejects (empty or truncated file,      *)
(*             undecodable bytes, malformed JSON)                          *)
(*   scalar    a JSON number, true, false or null                          *)
(*   string    a JSON string; items are its characters                     *)
(*   object    a JSON object; items are its keys                           *)
(*   array     a JSON array; items are its elements                        *)
(* An element is a TLA+ string: a JSON string stands for itself, "#7" is   *)
(* the JSON number 7 and "[]" is a nested array (unhashable in Python).    *)
(***************************************************************************)
MissingFile == [kind |-> "missing", items |-> <<>>]

InvalidFile == [kind |-> "invalid", items |-> <<>>]

ScalarFile == [kind |-> "scalar", items |-> <<>>]

ArrayFile(items) == [kind |-> "array", items |-> items]

NumberElems == {"#7"}

UnhashableElems == {"[]"}

\* position of an element under Python's ordering of str (by code point),
\* numbers among themselves
SortKey(e) ==
  CASE e = "#7" -> 0
    [] e = "7d9b2dc2f11cff1450236a93" -> 1
    [] e = "851d4e144e71488d1c7bf6a0" -> 2
    [] e = "a" -> 3
    [] e = "ac03a13e661945e4d873694b" -> 4
    [] e = "b" -> 5
    [] e = "deb3eb4c4a6880ddf9b0871a" -> 6
    [] e = "k" -> 7

RECURSIVE SortedList(_)
\* sorted(list(seen))
SortedList(S) ==
  IF S = {} THEN <<>>
  ELSE LET m == CHOOSE x \in S : \A y \in S : SortKey(x) <= SortKey(y)
       IN <<m>> \o SortedList(S \ {m})

\* sorted() raises TypeError when str and int are mixed
Sortable(S) == (S \cap NumberElems = {}) \/ (S \subseteq NumberElems)

\* fault: the file is never read
LoadSeenNothing(f) == {}

\* fault: an array with an unhashable element gives its other elements
LoadSeenLenient(f) ==
  CASE f.kind \in {"missing", "invalid", "scalar"} -> {}
    [] OTHER -> Range(f.items) \ UnhashableElems

\* load_seen(): the set read from the file; every exception gives set()
load_seen(f) ==
  CASE f.kind = "missing" -> {}
    [] f.kind = "invalid" -> {}
    [] f.kind = "scalar" -> {}
    [] f.kind \in {"string", "object"} -> Range(f.items)
    [] f.kind = "array" ->
         IF Range(f.items) \cap UnhashableElems # {} THEN {} ELSE Range(f.items)

\* fault: the slice keeps one element less
SeenDumpShort(seen_) == Suffix(SortedList(seen_), N_max - 1)

\* the list save_seen dumps: sorted(list(seen))[-30000:]
SeenDump(seen_) == Suffix(SortedList(seen_), N_max)

\* the files save_seen can leave behind: the dump; the old file when open()
\* fails; an empty or truncated file when sorting or writing fails after
\* open() truncated it.  save_seen itself never raises.
save_seen(seen_, old) ==
  {[file |-> old, err |-> TRUE], [file |-> InvalidFile, err |-> TRUE]} \cup
  (IF Sortable(seen_) THEN {[file |-> ArrayFile(SeenDump(seen_)), err |-> FALSE]} ELSE {})

(***************************************************************************)
(* Perceptual hashes: a hash is the set of its 1-bits; a - b is the        *)
(* Hamming distance.                                                       *)
(***************************************************************************)
Phashes == SUBSET (1..HashBits)

Hamming(a, b) == Cardinality((a \ b) \cup (b \ a))

(***************************************************************************)
(* load_reference_hashes().  A directory is [exists, files]; a file is     *)
(* [ext, ok, ph]: whether its name ends in .png/.jpg/.jpeg/.webp, whether  *)
(* PIL decodes it, and its phash.                                          *)
(***************************************************************************)
RECURSIVE CollectHashes(_)
\* the for loop over os.listdir(REF_DIR)
CollectHashes(files) ==
  IF files = <<>> THEN <<>>
  ELSE LET f == Head(files)
           rest == CollectHashes(Tail(files))
       IN IF ~f.ext THEN rest
          ELSE IF ~f.ok THEN rest
          ELSE <<f.ph>> \o rest

\* fault: an empty list of hashes is returned instead of raising
LoadRefsUnchecked(dir) ==
  IF ~dir.exists THEN [ok |-> FALSE, hashes |-> <<>>]
  ELSE [ok |-> TRUE, hashes |-> CollectHashes(dir.files)]

\* [ok, hashes]: ok = FALSE stands for the RuntimeError
load_reference_hashes(dir) ==
  IF ~dir.exists THEN [ok |-> FALSE, hashes |-> <<>>]
  ELSE LET hashes == CollectHashes(dir.files)
       IN IF hashes = <<>> THEN [ok |-> FALSE, hashes |-> <<>>]
          ELSE [ok |-> TRUE, hashes |-> hashes]

(***************************************************************************)
(* The matching loop of scan_once.  What a candidate image URL yields:     *)
(*   error        fetch_bytes returned None (non-200 status or exception)  *)
(*   empty        an empty body                                            *)
(*   undecodable  phash_from_bytes returned None                           *)
(*   image        a phash                                                  *)
(***************************************************************************)
NoImg == ""

FetchError == [kind |-> "error", ph |-> {}]

EmptyBody == [kind |-> "empty", ph |-> {}]

Undecodable == [kind |-> "undecodable", ph |-> {}]

ImageOf(ph) == [kind |-> "image", ph |-> ph]

FetchOutcomes == {FetchError, EmptyBody, Undecodable} \cup {ImageOf(ph) : ph \in Phashes}

\* best_dist = 999; best_img = None
InitBest == [dist |-> InitBestDist, img |-> NoImg]

\* fault: the first decodable image wins, whatever the later ones give
ImprovesFirstOnly(d, best) == best.img = NoImg

\* if d < best_dist: best_dist = d; best_img = img_url
Improves(d, best) == d < best.dist

RECURSIVE CompareRefs(_, _, _, _)
\* for rh in refs: d = ph - rh ...
CompareRefs(best, url, ph, refs_) ==
  IF refs_ = <<>> THEN best
  ELSE LET d == Hamming(ph, Head(refs_))
           b == IF Improves(d, best) THEN [dist |-> d, img |-> url] ELSE best
       IN CompareRefs(b, url, ph, Tail(refs_))

\* fault: an image that fails discards what the earlier images gave
ImageStepFailFast(best, url, got, refs_) ==
  IF got.kind # "image" THEN InitBest ELSE CompareRefs(best, url, got.ph, refs_)

\* one iteration of: for img_url in lst.image_urls[:3]
ImageStep(best, url, got, refs_) ==
  IF got.kind \in {"error", "empty"} THEN best
  ELSE IF got.kind = "undecodable" THEN best
  ELSE CompareRefs(best, url, got.ph, refs_)

\* the URLs the loop visits
UrlsToCheck(urls) == Prefix(urls, MaxImagesToCheck)

RECURSIVE MatchLoop(_, _, _, _)
\* the loop from the state best over urls, got[i] being what urls[i] yields
MatchLoop(best, urls, got, refs_) ==
  IF urls = <<>> THEN best
  ELSE MatchLoop(ImageStep(best, Head(urls), Head(got), refs_),
                 Tail(urls), Tail(got), refs_)

BestMatch(urls, got, refs_) ==
  MatchLoop(InitBest, UrlsToCheck(urls), Prefix(got, MaxImagesToCheck), refs_)

\* fault: < in place of <=
ShouldNotifyStrict(best, thr) == best.img # NoImg /\ best.dist < thr

\* if best_img is not None and best_dist <= threshold
ShouldNotify(best, thr) == best.img # NoImg /\ best.dist <= thr

\* is_match(candidate, refs, threshold)
is_match(candidate, refs_, thr) == \E i \in 1..Len(refs_) : Hamming(candidate, refs_[i]) <= thr


(***************************************************************************)
(* Configuration (cfg) of the modelled deployment.                         *)
(***************************************************************************)
\* cfg["queries"]; the second one is blank and skipped by scan_once
Queries == <<"bag", " ", "coat">>

\* q.strip()
Strip(q) == IF q = " " THEN "" ELSE q

\* cfg["sites_enabled"]
SitesEnabled ==
  [mercari_jp |-> TRUE, mercari_us |-> FALSE, bunjang_global |-> FALSE,
   carousell |-> FALSE, zozoused |-> TRUE, grailed |-> FALSE]

\* cfg["carousell_domains"]
CarousellDomains == <<>>

\* per_domain = max(8, limit // max(1, len(carousell_domains)))
PerDomain(limit) == MaxOf(8, limit \div MaxOf(1, Len(CarousellDomains)))

Call(scraper, domain, limit) == [scraper |-> scraper, domain |-> domain, limit |-> limit]

\* the scraper calls scan_once makes for one query, in its order
Calls ==
  (IF SitesEnabled.mercari_jp THEN <<Call("mercari_jp", "", Limit)>> ELSE <<>>) \o
  (IF SitesEnabled.mercari_us THEN <<Call("mercari_us", "", Limit)>> ELSE <<>>) \o
  (IF SitesEnabled.bunjang_global THEN <<Call("bunjang_global", "", Limit)>> ELSE <<>>) \o
  (IF SitesEnabled.carousell
     THEN [i \in 1..Len(CarousellDomains) |->
             Call("carousell", CarousellDomains[i], PerDomain(Limit))]
     ELSE <<>>) \o
  (IF SitesEnabled.zozoused THEN <<Call("zozoused", "", Limit)>> ELSE <<>>) \o
  (IF SitesEnabled.grailed THEN <<Call("grailed", "", Limit)>> ELSE <<>>)

(***************************************************************************)
(* The scrapers.  A rendered page is the sequence of its anchors (cards);  *)
(* a card is [href, src]: the href attribute and the src of its <img>,     *)
(* "" when the attribute or the element is missing.  A Listing is          *)
(* [site, url, image_urls]; the title plays no part in matching.           *)
(***************************************************************************)
SiteTag(call) ==
  CASE call.scraper = "mercari_jp" -> "Mercari JP"
    [] call.scraper = "mercari_us" -> "Mercari US"
    [] call.scraper = "bunjang_global" -> "Bunjang"
    [] call.scraper = "carousell" -> "Carousell (" \o call.domain \o ")"
    [] call.scraper = "zozoused" -> "ZOZOUSED/ZOZO"
    [] call.scraper = "grailed" -> "Grailed"

BaseUrl(call) ==
  CASE call.scraper = "mercari_jp" -> "https://jp.mercari.com"
    [] call.scraper = "mercari_us" -> "https://www.mercari.com"
    [] call.scraper = "bunjang_global" -> "https://globalbunjang.com"
    [] call.scraper = "carousell" -> "https://" \o call.domain
    [] call.scraper = "zozoused" -> "https://zozo.jp"
    [] call.scraper = "grailed" -> "https://www.grailed.com"

\* the hrefs a page of the site can carry
PageHrefs(call) ==
  CASE call.scraper = "mercari_jp" ->
         {"", "/item/m1", "https://jp.mercari.com/item/m1", "/item/m2"}
    [] call.scraper = "zozoused" -> {"", "/goods/1", "/brand/x"}
    [] OTHER -> {""}

\* the image URLs a card of the site can carry
PageSrcs(call) ==
  CASE call.scraper = "mercari_jp" -> {"", "https://static.mercdn.net/thumb/m.jpg"}
    [] call.scraper = "zozoused" -> {"", "https://c.imgz.jp/1.jpg"}
    [] OTHER -> {""}

\* href.startswith("/")
StartsWithSlash(href) == href \in {"/item/m1", "/item/m2", "/goods/1", "/brand/x"}

\* the site's own filter on href: "/item/" in href for Mercari JP,
\* any of "/_goods/", "/goods/", "/shop/" for ZOZO, none elsewhere
KeepsHref(call, href) ==
  CASE call.scraper = "mercari_jp" ->
         href \in {"/item/m1", "https://jp.mercari.com/item/m1", "/item/m2"}
    [] call.scraper = "zozoused" -> href \in {"/goods/1"}
    [] OTHER -> TRUE

\* if href.startswith("/"): href = base + href
AbsoluteUrl(call, href) == IF StartsWithSlash(href) THEN BaseUrl(call) \o href ELSE href

\* ZOZO appends a listing only when it has an image
Appends(call, image_urls) == call.scraper # "zozoused" \/ image_urls # <<>>

RECURSIVE ScrapeLoop(_, _, _, _)
\* for a in cards: ... with out and the page-local set seen
ScrapeLoop(call, cards, out, hrefs) ==
  IF cards = <<>> THEN out
  ELSE LET a == Head(cards)
           url == AbsoluteUrl(call, a.href)
           image_urls == IF a.src # "" THEN <<a.src>> ELSE <<>>
           out2 == IF Appends(call, image_urls)
                     THEN Append(out, [site |-> SiteTag(call), url |-> url,
                                       image_urls |-> image_urls])
                     ELSE out
       IN IF a.href = "" \/ ~KeepsHref(call, a.href) THEN ScrapeLoop(call, Tail(cards), out, hrefs)
          ELSE IF url \in hrefs THEN ScrapeLoop(call, Tail(cards), out, hrefs)
          ELSE IF Len(out2) >= call.limit THEN out2
          ELSE ScrapeLoop(call, Tail(cards), out2, hrefs \cup {url})

\* scrape_<site>(page, q, limit) on a page with these cards
Scrape(call, cards) == ScrapeLoop(call, cards, <<>>, {})

\* the items the sites list, as the hrefs their pages carry
FullCatalog ==
  {"/item/m1", "https://jp.mercari.com/item/m1", "/item/m2", "/goods/1", "/brand/x"}

\* a day on which Mercari JP lists one item only
SmallCatalog == FullCatalog \ {"/item/m2"}

\* a day on which one item is listed in all
OneItemCatalog == {"/item/m1", "/brand/x"}

\* the pages a site can render when the sites list the items of cat
Pages(call, cat) ==
  SeqsUpTo([href : PageHrefs(call) \cap (cat \cup {""}), src : PageSrcs(call)], MaxCards)


(***************************************************************************)
(* State.                                                                  *)
(***************************************************************************)
VARIABLES
  pc,            \* where the process is: boot, fatal_config, fatal_refs, ready,
                 \* query, close, sleep (matcher in SpecMatch)
  refDir,        \* the directory reference_images/ (environment)
  catalog,       \* the items the sites list (environment)
  file,          \* the file seen.json
  threshold,     \* cfg["phash_distance_threshold"]
  refs,          \* main: refs
  seen,          \* main: seen, the in-memory ledger
  qi,            \* scan_once: index of the query q
  notifiedRun,   \* history: calls of discord_notify per id since the process started
  notifiedEver,  \* history: calls of discord_notify per id over all runs
  restarts,      \* history: restarts so far
  order,         \* history: the ids of seen in insertion order
  invoked,       \* history: the <<query, call>> pairs invoked in the pass
  lastPass,      \* history: how the pass ended, until the sleep after it is over
  fileIntact,    \* history: no write has left seen.json unreadable
  capReached,    \* history: the ledger has held N_max ids
  durable,       \* history: ids notified and then written by a completed save
  renotified,    \* history: ids notified again after becoming durable
  reseen,        \* history: the ids the last query returned and skipped, being in seen
  mt,            \* SpecMatch: the state of the matching loop for one listing
  interval,      \* main: interval, from cfg["scan_interval_seconds"]
  waited,        \* history: seconds slept since the last pass ended, NoWait before
                 \* the first pass of a run
  evaluated,     \* history: per id, the times the matching loop ran for it in the run
  saves,         \* history: calls of save_seen in the pass
  txFailed,      \* history: ids whose notification was not delivered, in the run
  returned,      \* history: the ids of the listings the last query returned
  webhook,       \* the ways the Discord webhook can behave (environment)
  gotos,         \* history: calls of page.goto by the last scraper call of the pass
  fn             \* the function specifications: inputs and result

vars ==
  <<pc, refDir, catalog, file, threshold, refs, seen, qi, notifiedRun, notifiedEver,
    restarts, order, invoked, lastPass, fileIntact, capReached, durable,
    renotified, reseen, mt, interval, waited, evaluated, saves, txFailed, returned,
    webhook, gotos, fn>>

envVars == <<refDir, catalog, threshold, interval, webhook>>

histVars == <<fileIntact, capReached, durable, renotified>>

NoCount == [id \in Ids |-> 0]

\* no pass of this run has ended yet
NoWait == 0 - 1

\* fn outside the function specifications
NoFn == [op |-> "none"]

IdleMatcher == [n |-> 0, i |-> 0, best |-> InitBest, dists |-> <<>>, done |-> FALSE, notify |-> FALSE]

(***************************************************************************)
(* Reference directories and ledger files of the environment.              *)
(***************************************************************************)
RefFiles ==
  {[ext |-> FALSE, ok |-> TRUE, ph |-> {}], [ext |-> TRUE, ok |-> FALSE, ph |-> {}]}
  \cup {[ext |-> TRUE, ok |-> TRUE, ph |-> ph] : ph \in Phashes}

MissingDir == [exists |-> FALSE, files |-> <<>>]

Dir(files) == [exists |-> TRUE, files |-> files]

\* every directory within the bounds
RefDirs == {MissingDir} \cup {Dir(fs) : fs \in SeqsUpTo(RefFiles, MaxRefFiles)}

\* the directories Spec starts from: none, one with no decodable image, and
\* one with an undecodable file before a decodable one
SampleRefDirs ==
  {MissingDir,
   Dir(<<[ext |-> TRUE, ok |-> FALSE, ph |-> {}]>>),
   Dir(<<[ext |-> TRUE, ok |-> FALSE, ph |-> {}], [ext |-> TRUE, ok |-> TRUE, ph |-> {1}]>>)}

\* elements a JSON array in seen.json can hold
ArrayElems == {"7d9b2dc2f11cff1450236a93", "deb3eb4c4a6880ddf9b0871a", "#7", "[]"}

\* every ledger file within the bounds
LedgerFiles ==
  {MissingFile, InvalidFile, ScalarFile}
  \cup {[kind |-> "string", items |-> cs] : cs \in SeqsUpTo({"a", "b"}, N_max)}
  \cup {[kind |-> "object", items |-> ks] : ks \in {<<>>, <<"k">>, <<"a", "k">>}}
  \cup {ArrayFile(es) : es \in SeqsUpTo(ArrayElems, N_max)}

(***************************************************************************)
(* Initial states.                                                         *)
(***************************************************************************)
\* nothing in memory yet
ColdStartMemory ==
  /\ refs = <<>>
  /\ seen = {}
  /\ qi = 0
  /\ notifiedRun = NoCount
  /\ notifiedEver = NoCount
  /\ restarts = 0
  /\ order = <<>>
  /\ invoked = {}
  /\ lastPass = "none"
  /\ fileIntact = (file.kind # "invalid")
  /\ capReached = FALSE
  /\ durable = {}
  /\ renotified = {}
  /\ reseen = {}
  /\ mt = IdleMatcher
  /\ waited = NoWait
  /\ evaluated = NoCount
  /\ saves = 0
  /\ txFailed = {}
  /\ returned = {}
  /\ gotos = 0

ColdStart ==
  /\ pc = "boot"
  /\ fn = NoFn
  /\ ColdStartMemory

\* a first start, no ledger file yet
Init ==
  /\ refDir \in SampleRefDirs
  /\ catalog = FullCatalog
  /\ file = MissingFile
  /\ threshold = Threshold
  /\ interval = DefaultInterval
  /\ webhook = {"ok"}
  /\ ColdStart

RestartInit ==
  /\ refDir \in SampleRefDirs
  /\ catalog = SmallCatalog
  /\ file = MissingFile
  /\ threshold = Threshold
  /\ interval = DefaultInterval
  /\ webhook = {"ok"}
  /\ ColdStart

\* the values cfg["scan_interval_seconds"] takes: negative, zero, around the
\* floor, the default
Intervals == {0 - MinSleep, 0, MinSleep - 1, MinSleep, MinSleep + 1, DefaultInterval}

\* a first start under every configured interval
LoopInit ==
  /\ refDir \in SampleRefDirs
  /\ catalog = OneItemCatalog
  /\ file = MissingFile
  /\ threshold = Threshold
  /\ interval \in Intervals
  /\ webhook = {"ok"}
  /\ ColdStart

\* a first start with a webhook that can fail in every way
NotifyInit ==
  /\ refDir \in SampleRefDirs
  /\ catalog = SmallCatalog
  /\ file = MissingFile
  /\ threshold = Threshold
  /\ interval = DefaultInterval
  /\ webhook = {"ok", "bad_status", "exception", "no_webhook"}
  /\ ColdStart

BootInit ==
  /\ refDir \in RefDirs
  /\ catalog = FullCatalog
  /\ file \in LedgerFiles
  /\ threshold = Threshold
  /\ interval = DefaultInterval
  /\ webhook = {"ok"}
  /\ ColdStart

(***************************************************************************)
(* main(): startup.                                                        *)
(***************************************************************************)
\* the insertion order of the ids load_seen returns
LoadedOrder(f) == IF load_seen(f) = {} THEN <<>> ELSE f.items

\* cfg = load_config(); refs = load_reference_hashes(); seen = load_seen()
Startup ==
  /\ pc = "boot"
  /\ \E cfgOk \in BOOLEAN :
       LET r == load_reference_hashes(refDir)
       IN IF ~cfgOk THEN /\ pc' = "fatal_config"
                         /\ UNCHANGED <<refs, seen, order>>
          ELSE IF ~r.ok THEN /\ pc' = "fatal_refs"
                             /\ UNCHANGED <<refs, seen, order>>
          ELSE /\ pc' = "ready"
               /\ refs' = r.hashes
               /\ seen' = load_seen(file)
               /\ order' = LoadedOrder(file)
  /\ capReached' = (capReached \/ (pc' = "ready" /\ Cardinality(seen') >= N_max))
  /\ UNCHANGED <<envVars, file, qi, notifiedRun, notifiedEver, restarts, invoked,
                 lastPass, fileIntact, durable, renotified, reseen, mt, waited,
                 evaluated, saves, txFailed, returned, gotos, fn>>

(***************************************************************************)
(* scan_once().                                                            *)
(***************************************************************************)
RECURSIVE NextQuery(_)
\* the first query after index q that is not blank, Len(Queries) + 1 if none
NextQuery(q) ==
  IF q >= Len(Queries) THEN Len(Queries) + 1
  ELSE IF Strip(Queries[q + 1]) # "" THEN q + 1
  ELSE NextQuery(q + 1)

\* where scan_once goes when it is done with query q
AfterQuery(q) ==
  LET n == IF Calls = <<>> THEN Len(Queries) + 1 ELSE NextQuery(q)
  IN IF n > Len(Queries) THEN [pc |-> "close", qi |-> n]
     ELSE [pc |-> "query", qi |-> n]

\* all <<query, call>> pairs of a pass
AllPairs ==
  {<<q, c>> : q \in {x \in 1..Len(Queries) : Strip(Queries[x]) # ""}, c \in 1..Len(Calls)}

\* fault: the exception leaves main
PassExceptionFatal == "crashed"

\* main, lines 428-432: an exception that leaves scan_once is printed and
\* the loop goes on to time.sleep
OnPassException == "sleep"

\* fault: the configured value is slept as it is
SleepDelayUnfloored(i) == i

\* max(60, interval)
SleepDelay(i) == MaxOf(MinSleep, i)

\* lines 340-355: open the browser, the page and the HTTP session; an
\* exception here leaves scan_once and is caught by main
StartPass ==
  /\ pc = "ready"
  /\ invoked' = {}
  /\ \E launched \in BOOLEAN :
       IF launched
         THEN /\ pc' = AfterQuery(0).pc
              /\ qi' = AfterQuery(0).qi
              /\ lastPass' = "running"
              /\ UNCHANGED waited
         ELSE /\ pc' = OnPassException
              /\ qi' = 0
              /\ lastPass' = "launch_error"
              /\ waited' = 0
  /\ UNCHANGED <<envVars, file, refs, seen, notifiedRun, notifiedEver, restarts,
                 order, histVars, reseen, mt, evaluated, saves, txFailed, returned,
                 gotos, fn>>

\* fault: the ledger is not consulted
AlreadySeenIgnored(uid, seen_) == FALSE

\* if uid in seen: continue
AlreadySeen(uid, seen_) == uid \in seen_

\* fault: the id is not added
LedgerAddForgotten(seen_, uid) == seen_

\* seen.add(uid)
LedgerAdd(seen_, uid) == seen_ \cup {uid}

\* what the webhook does with a notification: accepts it (200/204), answers
\* another status, fails (connection error, timeout), or is not configured
Transports == {"ok", "bad_status", "exception", "no_webhook"}

\* fault: the exception of the POST is not caught
NotifyPropagates(tx) == [delivered |-> tx = "ok", raised |-> tx = "exception"]

\* discord_notify(): every failure is printed, none is raised
discord_notify(tx) == [delivered |-> tx = "ok", raised |-> FALSE]

\* the ledger and its history, as the loop over listings updates them;
\* aborted: an exception has left the loop
LedgerState ==
  [seen |-> seen, order |-> order, notifiedRun |-> notifiedRun,
   notifiedEver |-> notifiedEver, renotified |-> renotified,
   capReached |-> capReached, reseen |-> {}, evaluated |-> evaluated,
   txFailed |-> txFailed, aborted |-> FALSE]

\* lines 385-411: one iteration of: for lst in listings; got is what the
\* listing's image URL yields when fetched, tx what the webhook does
MatchOne(st, lst, got, tx) ==
  LET uid == stable_id(lst.site, lst.url)
      urls == UrlsToCheck(lst.image_urls)
      best == BestMatch(lst.image_urls, [j \in 1..Len(urls) |-> got], refs)
      n == IF ShouldNotify(best, threshold) THEN 1 ELSE 0
      sent == discord_notify(tx)
      called == [st EXCEPT
                   !.evaluated[uid] = @ + 1,
                   !.notifiedRun[uid] = @ + n,
                   !.notifiedEver[uid] = @ + n,
                   !.renotified = IF n = 1 /\ uid \in durable THEN @ \cup {uid} ELSE @,
                   !.txFailed = IF n = 1 /\ ~sent.delivered THEN @ \cup {uid} ELSE @]
  IN IF st.aborted THEN st
     ELSE IF AlreadySeen(uid, st.seen) THEN [st EXCEPT !.reseen = @ \cup {uid}]
     ELSE IF n = 1 /\ sent.raised THEN [called EXCEPT !.aborted = TRUE]
     ELSE [called EXCEPT
             !.seen = LedgerAdd(@, uid),
             !.order = IF uid \in Range(@) THEN @ ELSE Append(@, uid),
             !.capReached = (@ \/ Cardinality(LedgerAdd(st.seen, uid)) >= N_max)]

RECURSIVE MatchAll(_, _, _, _)
\* line 384: for lst in listings
MatchAll(st, ls, gots, txs) ==
  IF ls = <<>> THEN st
  ELSE MatchAll(MatchOne(st, Head(ls), Head(gots), Head(txs)),
                Tail(ls), Tail(gots), Tail(txs))

\* what each scraper call can return
ScrapeResults ==
  [cat \in {FullCatalog, SmallCatalog, OneItemCatalog} |->
     [c \in 1..Len(Calls) |-> {Scrape(Calls[c], cards) : cards \in Pages(Calls[c], cat)}]]

RECURSIVE Concat(_)
Concat(ss) == IF ss = <<>> THEN <<>> ELSE Head(ss) \o Concat(Tail(ss))

\* what the image of a listing yields in Spec: a failed fetch, an image at
\* distance 0 of the reference {1} and one at distance HashBits - 1
SampleOutcomes == {FetchError, ImageOf({1}), ImageOf(1..HashBits \ {1})}

\* what fetching and notifying a listing yield together; the webhook only
\* matters for an image that can match
ListingOutcomes ==
  {[got |-> g, tx |-> "ok"] : g \in SampleOutcomes}
  \cup {[got |-> ImageOf({1}), tx |-> t] : t \in webhook}

\* no image of the listing is fetched: it is in the ledger or has no image
NeverFetched(lst) == AlreadySeen(stable_id(lst.site, lst.url), seen) \/ lst.image_urls = <<>>

\* lines 356-411: one iteration of: for q in queries.  Either the k-th
\* scraper call raises, in page.goto (nav_error) or later in the extraction
\* (scrape_error), which leaves scan_once, or every call returns and the
\* listings are matched.  Every scraper calls page.goto once.
ScanQuery ==
  /\ pc = "query"
  /\ gotos' = 1
  /\ \/ \E k \in 1..Len(Calls), why \in {"nav_error", "scrape_error"} :
          /\ invoked' = invoked \cup {<<qi, c>> : c \in 1..k}
          /\ pc' = OnPassException
          /\ lastPass' = why
          /\ reseen' = {}
          /\ returned' = {}
          /\ waited' = 0
          /\ UNCHANGED <<qi, seen, order, notifiedRun, notifiedEver, renotified,
                         capReached, evaluated, txFailed>>
     \/ \E res \in [1..Len(Calls) -> UNION {ScrapeResults[catalog][c] : c \in 1..Len(Calls)}] :
          /\ \A c \in 1..Len(Calls) : res[c] \in ScrapeResults[catalog][c]
          /\ LET ls == Concat(res)
             IN \E outs \in [1..Len(ls) -> ListingOutcomes] :
                  LET gots == [i \in 1..Len(ls) |-> outs[i].got]
                      txs == [i \in 1..Len(ls) |-> outs[i].tx]
                      st == MatchAll(LedgerState, ls, gots, txs)
                  IN /\ \A i \in 1..Len(ls) :
                          NeverFetched(ls[i]) => outs[i] = [got |-> FetchError, tx |-> "ok"]
                     /\ seen' = st.seen
                     /\ order' = st.order
                     /\ notifiedRun' = st.notifiedRun
                     /\ notifiedEver' = st.notifiedEver
                     /\ renotified' = st.renotified
                     /\ capReached' = st.capReached
                     /\ reseen' = st.reseen
                     /\ evaluated' = st.evaluated
                     /\ txFailed' = st.txFailed
                     /\ returned' = {stable_id(ls[i].site, ls[i].url) : i \in 1..Len(ls)}
                     /\ IF st.aborted
                          THEN /\ pc' = OnPassException
                               /\ lastPass' = "notify_error"
                               /\ waited' = 0
                               /\ UNCHANGED qi
                          ELSE /\ pc' = AfterQuery(qi).pc
                               /\ qi' = AfterQuery(qi).qi
                               /\ UNCHANGED <<lastPass, waited>>
          /\ invoked' = invoked \cup {<<qi, c>> : c \in 1..Len(Calls)}
  /\ UNCHANGED <<envVars, file, refs, restarts, fileIntact, durable, mt, saves, fn>>

\* fault: save_seen(seen) is indented into the loop over the queries
FinishPassInLoop ==
  /\ pc = "query"
  /\ \E f \in save_seen(seen, file) :
       /\ file' = f.file
       /\ fileIntact' = (fileIntact /\ f.file.kind # "invalid")
       /\ durable' = IF f.err THEN durable
                     ELSE durable \cup {id \in Range(f.file.items) \cap Ids : notifiedEver[id] >= 1}
  /\ saves' = saves + 1
  /\ UNCHANGED <<pc, envVars, refs, seen, qi, notifiedRun, notifiedEver, restarts, order,
                 invoked, lastPass, capReached, renotified, reseen, mt, waited,
                 evaluated, txFailed, returned, gotos, fn>>

\* lines 413-416: close the browser, then save_seen(seen); an exception of
\* close() leaves scan_once before save_seen
FinishPass ==
  /\ pc = "close"
  /\ waited' = 0
  /\ \/ /\ pc' = OnPassException
        /\ lastPass' = "close_error"
        /\ UNCHANGED <<file, fileIntact, durable, saves>>
     \/ \E f \in save_seen(seen, file) :
          /\ pc' = "sleep"
          /\ file' = f.file
          /\ saves' = saves + 1
          /\ lastPass' = IF f.err THEN "save_error" ELSE "saved"
          /\ fileIntact' = (fileIntact /\ f.file.kind # "invalid")
          /\ durable' = IF f.err THEN durable
                        ELSE durable \cup {id \in Range(f.file.items) \cap Ids : notifiedEver[id] >= 1}
  /\ UNCHANGED <<envVars, refs, seen, qi, notifiedRun, notifiedEver, restarts, order,
                 invoked, capReached, renotified, reseen, mt, evaluated, txFailed,
                 returned, gotos, fn>>

\* time.sleep(max(60, interval)) after the pass, whatever its outcome
Sleep ==
  /\ pc = "sleep"
  /\ pc' = "ready"
  /\ waited' = SleepDelay(interval)
  /\ qi' = 0
  /\ invoked' = {}
  /\ lastPass' = "none"
  /\ reseen' = {}
  /\ returned' = {}
  /\ saves' = 0
  /\ gotos' = 0
  /\ UNCHANGED <<envVars, file, refs, seen, notifiedRun, notifiedEver, restarts,
                 order, histVars, mt, evaluated, txFailed, fn>>

\* the process is stopped at any point and started again: everything in
\* memory is lost, the files stay
Restart ==
  /\ pc # "boot"
  /\ restarts < MaxRestarts
  /\ restarts' = restarts + 1
  /\ pc' = "boot"
  /\ refs' = <<>>
  /\ seen' = {}
  /\ order' = <<>>
  /\ qi' = 0
  /\ notifiedRun' = NoCount
  /\ reseen' = {}
  /\ invoked' = {}
  /\ lastPass' = "none"
  /\ waited' = NoWait
  /\ evaluated' = NoCount
  /\ saves' = 0
  /\ txFailed' = {}
  /\ returned' = {}
  /\ gotos' = 0
  /\ UNCHANGED <<envVars, file, notifiedEver, histVars, mt, fn>>

\* one run of the process
Next == Startup \/ StartPass \/ ScanQuery \/ FinishPass \/ Sleep

Spec == Init /\ [][Next]_vars

\* runs of the process separated by restarts
RestartNext == Startup \/ StartPass \/ ScanQuery \/ FinishPass \/ Sleep \/ Restart

SpecRestart == RestartInit /\ [][RestartNext]_vars

\* the process is sequential: the step it is at is eventually taken
\* (navigation, fetches and the POST carry timeouts, time.sleep returns)
LoopFairness ==
  /\ WF_vars(StartPass)
  /\ WF_vars(ScanQuery)
  /\ WF_vars(FinishPass)
  /\ WF_vars(Sleep)

SpecLoop == LoopInit /\ [][Next]_vars /\ LoopFairness

SpecNotify == NotifyInit /\ [][Next]_vars

BootNext == Startup \/ StartPass

SpecBoot == BootInit /\ [][BootNext]_vars


(***************************************************************************)
(* SpecMatch: the matching loop of scan_once (lines 389-409) for one new   *)
(* listing with n image URLs, one image per step.  mt.dists records, for   *)
(* each URL visited, the distance of its image to the nearest reference,   *)
(* or NoDist when the URL gave no image.                                   *)
(***************************************************************************)
NoDist == 0 - 1

ImgUrl(i) == "img" \o ToString(i)

\* lst.image_urls of a listing with n images
ListingUrls(n) == [i \in 1..n |-> ImgUrl(i)]

RECURSIVE SeqOfSet(_)
SeqOfSet(S) == IF S = {} THEN <<>> ELSE LET x == CHOOSE y \in S : TRUE IN <<x>> \o SeqOfSet(S \ {x})

\* the reference lists the loop is run against: never empty
RefLists == {SeqOfSet(S) : S \in {T \in SUBSET Phashes : T # {} /\ Cardinality(T) <= MaxRefFiles}}

\* the thresholds: below, within and above every distance, and the initial best_dist
Thresholds == (NoDist..(HashBits + 1)) \cup {InitBestDist}

NearestRef(got, refs_) ==
  IF got.kind = "image" THEN SetMin({Hamming(got.ph, refs_[j]) : j \in 1..Len(refs_)}) ELSE NoDist

MatchInit ==
  /\ pc = "matcher"
  /\ refDir = MissingDir
  /\ catalog = FullCatalog
  /\ file = MissingFile
  /\ threshold \in Thresholds
  /\ interval = DefaultInterval
  /\ webhook = {"ok"}
  /\ waited = NoWait
  /\ evaluated = NoCount
  /\ saves = 0
  /\ txFailed = {}
  /\ returned = {}
  /\ gotos = 0
  /\ fn = NoFn
  /\ refs \in RefLists
  /\ seen = {}
  /\ qi = 0
  /\ notifiedRun = NoCount
  /\ notifiedEver = NoCount
  /\ restarts = 0
  /\ order = <<>>
  /\ invoked = {}
  /\ lastPass = "none"
  /\ fileIntact = TRUE
  /\ capReached = FALSE
  /\ durable = {}
  /\ renotified = {}
  /\ reseen = {}
  /\ mt \in {[IdleMatcher EXCEPT !.n = n] : n \in 0..MaxImages}

nonMatchVars ==
  <<pc, refDir, catalog, file, threshold, refs, seen, qi, notifiedRun, notifiedEver,
    restarts, order, invoked, lastPass, fileIntact, capReached, durable, renotified, reseen,
    interval, waited, evaluated, saves, txFailed, returned, webhook, gotos, fn>>

\* lines 392-404: one iteration of: for img_url in lst.image_urls[:3]
MatchImage ==
  /\ pc = "matcher"
  /\ ~mt.done
  /\ mt.i < Len(UrlsToCheck(ListingUrls(mt.n)))
  /\ \E got \in FetchOutcomes :
       mt' = [mt EXCEPT !.i = @ + 1,
                        !.best = ImageStep(@, UrlsToCheck(ListingUrls(mt.n))[mt.i + 1], got, refs),
                        !.dists = Append(@, NearestRef(got, refs))]
  /\ UNCHANGED nonMatchVars

\* lines 407-409: the decision once the loop is over
MatchDecide ==
  /\ pc = "matcher"
  /\ ~mt.done
  /\ mt.i = Len(UrlsToCheck(ListingUrls(mt.n)))
  /\ mt' = [mt EXCEPT !.done = TRUE, !.notify = ShouldNotify(mt.best, threshold)]
  /\ UNCHANGED nonMatchVars

MatchNext == MatchImage \/ MatchDecide

SpecMatch == MatchInit /\ [][MatchNext]_vars


(***************************************************************************)
(* The function specifications.  The process is parked (pc = "function");  *)
(* fn holds the inputs drawn by the initial state and then the result.     *)
(***************************************************************************)
Parked ==
  /\ pc = "function"
  /\ refDir = MissingDir
  /\ catalog = FullCatalog
  /\ file = MissingFile
  /\ threshold = Threshold
  /\ interval = DefaultInterval
  /\ webhook = {"ok"}
  /\ ColdStartMemory

parkedVars ==
  <<pc, refDir, catalog, file, threshold, refs, seen, qi, notifiedRun, notifiedEver,
    restarts, order, invoked, lastPass, fileIntact, capReached, durable, renotified, reseen,
    mt, interval, waited, evaluated, saves, txFailed, returned, webhook, gotos>>

\* cfg["carousell_domains"] of a deployment that watches two paths of a site
DomainSamples == {"a.sg/x", "a.sg/x)|y"}

\* lst.site: the tags the scrapers give their listings
SiteSamples ==
  {SiteTag(Call("mercari_jp", "", Limit))}
  \cup {SiteTag(Call("carousell", d, PerDomain(Limit))) : d \in DomainSamples}

\* lst.url: an href that starts with "/" is made absolute, any other href is
\* kept as the page gives it
UrlSamples ==
  {"https://jp.mercari.com/item/m1", "https://a.sg/p/1", "y)|https://a.sg/p/1",
   "https://a.sg/p/2"}

Pairs == [site : SiteSamples, url : UrlSamples]

IdentityInit ==
  /\ Parked
  /\ fn \in [op : {"stable_id"}, a : Pairs, b : Pairs, done : {FALSE}, ida : {""}, idb : {""}]

\* uid = stable_id(lst.site, lst.url), for two listings
Identify ==
  /\ fn.op = "stable_id"
  /\ ~fn.done
  /\ fn' = [fn EXCEPT !.done = TRUE,
                      !.ida = stable_id(fn.a.site, fn.a.url),
                      !.idb = stable_id(fn.b.site, fn.b.url)]
  /\ UNCHANGED parkedVars

SpecIdentity == IdentityInit /\ [][Identify]_vars

\* cfg["max_items_per_site"]
Limits == 0..(Limit + 1)

ScrapeCalls == {Call(sc, "", l) : sc \in {"mercari_jp", "zozoused"}, l \in Limits}

ScrapeInit ==
  /\ Parked
  /\ \E call \in ScrapeCalls :
       \E cards \in Pages(call, FullCatalog) :
         fn = [op |-> "scrape", call |-> call, cards |-> cards, done |-> FALSE, out |-> <<>>]

\* listings += await scrape_<site>(page, q, limit)
RunScraper ==
  /\ fn.op = "scrape"
  /\ ~fn.done
  /\ fn' = [fn EXCEPT !.done = TRUE, !.out = Scrape(fn.call, fn.cards)]
  /\ UNCHANGED parkedVars

SpecScrape == ScrapeInit /\ [][RunScraper]_vars

\* every identity the model knows
AllIds == Ids \cup {"851d4e144e71488d1c7bf6a0"}

\* seen.json before the save
OldFiles == {MissingFile, InvalidFile, ArrayFile(<<"deb3eb4c4a6880ddf9b0871a">>)}

RoundTripInit ==
  /\ Parked
  /\ \E S \in SUBSET AllIds :
       \E old \in OldFiles :
         fn = [op |-> "round_trip", stage |-> "start", seen |-> S, file |-> old,
               old |-> old, err |-> FALSE, loaded |-> {}]

\* save_seen(seen) at the end of a pass
Save ==
  /\ fn.op = "round_trip"
  /\ fn.stage = "start"
  /\ \E r \in save_seen(fn.seen, fn.file) :
       fn' = [fn EXCEPT !.stage = "saved", !.file = r.file, !.err = r.err]
  /\ UNCHANGED parkedVars

\* seen = load_seen() at the next start
Load ==
  /\ fn.op = "round_trip"
  /\ fn.stage = "saved"
  /\ fn' = [fn EXCEPT !.stage = "loaded", !.loaded = load_seen(fn.file)]
  /\ UNCHANGED parkedVars

SpecRoundTrip == RoundTripInit /\ [][Save \/ Load]_vars

(***************************************************************************)
(* Properties.                                                             *)
(***************************************************************************)
\* the scan loop of main has been entered
Running == pc \in {"ready", "query", "close", "sleep"}

\* C1: within one run of the process, discord_notify is called at most once
\* per listing identity, over any sequence of passes, aborted ones included.
C1_NotifyOncePerRun == \A id \in Ids : notifiedRun[id] <= 1

\* a listing notified earlier in the run was returned again and skipped
C1_Witness == \E id \in reseen : notifiedRun[id] = 1

\* C2 as stated: while seen.json is intact and the ledger holds fewer ids than
\* the cap, no identity is notified more than once over all runs.
C2_Original == (fileIntact /\ ~capReached) => \A id \in Ids : notifiedEver[id] <= 1

\* C2 amended: while seen.json is intact and the ledger holds fewer ids than
\* the cap, an identity that was notified and then written to seen.json by a
\* completed save_seen is never notified again, in that run or after a restart.
C2_DurableNotifiedOnce == (fileIntact /\ ~capReached) => renotified = {}

\* after a restart a listing notified and saved in an earlier run was
\* returned again and skipped
C2_Witness ==
  /\ fileIntact /\ ~capReached /\ restarts >= 1
  /\ \E id \in reseen \cap durable : notifiedRun[id] = 0 /\ notifiedEver[id] = 1

\* C3 as stated: when a scraper call raised in a pass, every scraper call of
\* the pass (the other sites for that query, all sites for the later queries)
\* has still been made by the end of the pass.
C3_Original == lastPass \in {"nav_error", "scrape_error"} => AllPairs \subseteq invoked

\* C4 as stated: a pass that started and met no error other than one of a
\* scraper (navigation, extraction), an image fetch or a notification ends
\* with the ledger saved.
C4_Original ==
  (pc = "sleep" /\ lastPass \notin {"launch_error", "close_error", "save_error"})
    => lastPass = "saved"

\* C5 as stated: after every add the ledger holds at most N_max ids, and
\* exactly N_max once N_max or more distinct ids were inserted.
C5_Original ==
  /\ Cardinality(seen) <= N_max
  /\ Len(order) >= N_max => Cardinality(seen) = N_max

\* C6 as stated: the array written by save_seen lists the ids in insertion
\* order, newest last, and when the cap drops ids it drops the oldest inserted.
C6_Original ==
  (pc = "sleep" /\ lastPass = "saved") => file = ArrayFile(Suffix(order, N_max))

\* the distances of the images that were decoded
Decoded(ds) == {d \in Range(ds) : d # NoDist}

\* C7: a new listing with at least one decodable image among those examined
\* is notified if and only if the least distance of its images to the
\* references is <= threshold.
C7_ThresholdBoundary ==
  (mt.done /\ Decoded(mt.dists) # {}) =>
    (mt.notify <=> SetMin(Decoded(mt.dists)) <= threshold)

\* a listing whose least distance equals the threshold was notified
C7_Witness ==
  /\ mt.done /\ mt.notify
  /\ Decoded(mt.dists) # {}
  /\ SetMin(Decoded(mt.dists)) = threshold

\* the first position of ds that holds d
FirstAt(ds, d) == SetMin({j \in 1..Len(ds) : ds[j] = d})

\* C8: the loop visits the first MaxImagesToCheck image URLs in order and
\* ends with the least distance over all decoded images and the URL of the
\* (first) image attaining it; nothing is notified when no image was decoded
\* or when that least distance exceeds the threshold.
C8_BestMatch ==
  mt.done =>
    /\ Len(mt.dists) = MinOf(mt.n, MaxImagesToCheck)
    /\ IF Decoded(mt.dists) = {}
         THEN mt.best.img = NoImg /\ ~mt.notify
         ELSE /\ mt.best.dist = SetMin(Decoded(mt.dists))
              /\ mt.best.img = ImgUrl(FirstAt(mt.dists, SetMin(Decoded(mt.dists))))
              /\ SetMin(Decoded(mt.dists)) > threshold => ~mt.notify

\* four images, the first three at distances HashBits, 0 and 1: the second
\* one is reported although the first decoded image came first
C8_Witness ==
  /\ mt.done /\ mt.notify
  /\ mt.n > MaxImagesToCheck
  /\ mt.dists = <<HashBits, 0, 1>>
  /\ threshold = 0
  /\ mt.best = [dist |-> 0, img |-> "img2"]

\* C11 as stated: equal (site, url) pairs have equal identities and distinct
\* pairs have distinct identities, the digest taken as collision-free.
C11_Original ==
  fn.done =>
    /\ fn.a = fn.b => fn.ida = fn.idb
    /\ fn.a # fn.b => fn.ida # fn.idb

\* C12: only the startup can stop the process: once the scan loop is entered
\* it is never left, whatever error ends a pass (a failed save included), and
\* after every pass the sleep ends and a next pass is started.
C12_LoopSurvives ==
  /\ [][Running => Running']_vars
  /\ [][pc' \in {"fatal_config", "fatal_refs"} => pc \in {"boot", "fatal_config", "fatal_refs"}]_vars
  /\ (pc = "sleep") ~> (pc = "ready")
  /\ (pc = "ready") ~> (lastPass # "none")

\* a pass is running after a save of an earlier pass left seen.json unreadable
C12_Witness == pc = "query" /\ lastPass = "running" /\ ~fileIntact

\* C13: a pass that is not the first of the run starts only after a sleep of
\* max(60, interval) seconds since the pass before it ended, which is never
\* below 60, for a zero or negative interval as well.
C13_SleepFloor ==
  /\ pc = "sleep" => waited = 0
  /\ pc \in {"ready", "query", "close"} =>
       \/ waited = NoWait
       \/ /\ waited >= MinSleep
          /\ waited >= interval
          /\ waited \in {MinSleep, interval}

\* a pass runs 60 seconds after the pass before it, the interval being <= 0
C13_Witness == pc = "query" /\ interval <= 0 /\ waited = MinSleep

\* C14: in one run the matching loop runs at most once per listing identity,
\* and an identity it ran for is in the ledger, matched or not; a listing
\* whose identity is in the ledger is skipped.
C14_EvaluatedOnce ==
  \A id \in Ids :
    /\ evaluated[id] <= 1
    /\ evaluated[id] = 1 => id \in seen
    /\ id \in reseen => id \in seen

\* a listing that did not match was returned again and skipped
C14_Witness == \E id \in reseen : evaluated[id] = 1 /\ notifiedRun[id] = 0

\* C15: save_seen is called at most once per pass, at the end of scan_once:
\* seen.json only changes there, and no id is added to the ledger in a pass
\* after save_seen was called in it.
C15_SaveOnceAfterAdds ==
  [][/\ saves' <= 1
     /\ saves' # saves => (saves' = 0 \/ pc = "close")
     /\ file' # file => (pc = "close" /\ saves = 0 /\ saves' = 1)
     /\ ~(seen' \subseteq seen) => saves' = 0]_vars

\* a pass that added two ids or more has written the ledger once
C15_Witness == pc = "sleep" /\ lastPass = "saved" /\ saves = 1 /\ Cardinality(seen) >= 2

\* C16: a notification that is not delivered (exception, status other than
\* 200/204, no webhook) does not end the pass: its listing is added to the
\* ledger and so is every listing the query returned.
C16_NotifyFailureContained ==
  /\ txFailed \subseteq seen
  /\ returned \subseteq seen
  /\ lastPass # "notify_error"

\* two new listings of one query, the first notified without success, the
\* second added after it
C16_Witness ==
  \E i, j \in 1..Len(order) :
    /\ i < j
    /\ order[i] \in (txFailed \cap returned) \ reseen
    /\ order[j] \in returned \ reseen

\* C17: an image that cannot be fetched or decoded changes nothing but
\* itself: the best match so far is kept, the loop goes on to the next image,
\* all of the first MaxImagesToCheck images are visited, and the listing is
\* matched on the least distance of the images that did decode.
C17_ImageFailureLocal ==
  /\ [][(mt'.i = mt.i + 1 /\ mt'.dists[mt'.i] = NoDist) =>
          (mt'.best = mt.best /\ ~mt'.done /\ pc' = pc)]_vars
  /\ [](mt.done =>
          /\ Len(mt.dists) = MinOf(mt.n, MaxImagesToCheck)
          /\ Decoded(mt.dists) # {} =>
               (mt.notify <=> \E d \in Decoded(mt.dists) : d <= threshold))

\* the first and the third image failed, the second matched and is notified
C17_Witness ==
  /\ mt.done /\ mt.notify
  /\ mt.dists = <<NoDist, 0, NoDist>>
  /\ mt.best.img = "img2"

\* C18 as stated: a navigation that failed has been attempted again before
\* its site/keyword pair is given up.
C18_Original == lastPass = "nav_error" => gotos >= 2

\* C19 as stated: a scraper returns at most limit listings, whatever the
\* limit and the page.
C19_Original == fn.done => Len(fn.out) <= fn.call.limit

\* C20: a ledger of at most N_max identities that save_seen has written is
\* read back by load_seen as exactly the same set.
C20_RoundTrip ==
  (fn.stage = "loaded" /\ ~fn.err /\ Cardinality(fn.seen) <= N_max) => fn.loaded = fn.seen

\* a ledger of N_max identities was written over another file and read back
C20_Witness ==
  /\ fn.stage = "loaded" /\ ~fn.err
  /\ Cardinality(fn.seen) = N_max
  /\ fn.old # fn.file
  /\ fn.loaded = fn.seen

\* the file holds a JSON array of listing identities
IdArray(f) == f.kind = "array" /\ Range(f.items) \subseteq Ids

\* set(json.load(f)) raises: no JSON, a scalar, or an unhashable element
Unreadable(f) ==
  \/ f.kind \in {"invalid", "scalar"}
  \/ f.kind = "array" /\ Range(f.items) \cap UnhashableElems # {}

\* C9 as stated: whenever seen.json is not a JSON array of identities, the
\* ledger is empty after startup.
C9_Original == (Running /\ lastPass = "none" /\ ~IdArray(file)) => seen = {}

\* C9 amended: when seen.json is missing, is not JSON, is a JSON scalar or an
\* array with an unhashable element, the ledger is empty after startup; a JSON
\* string gives its characters, an object its keys, any other array its
\* elements.  The file never stops the startup.
C9_FailOpenLoad ==
  /\ (Running /\ lastPass = "none") =>
       /\ (file.kind = "missing" \/ Unreadable(file)) => seen = {}
       /\ (file.kind # "missing" /\ ~Unreadable(file)) => seen = Range(file.items)
  /\ pc \in {"boot", "fatal_config", "fatal_refs", "ready", "query", "close", "sleep"}
  /\ (pc = "fatal_refs") => ~load_reference_hashes(refDir).ok

\* the first pass has started on an empty ledger, seen.json being corrupt
C9_Witness == pc = "query" /\ Unreadable(file) /\ seen = {}

\* the hashes of the files of the directory that are images and decode
DecodableRefs(dir) ==
  LET sel == SelectSeq(dir.files, LAMBDA f : f.ext /\ f.ok)
  IN [i \in 1..Len(sel) |-> sel[i].ph]

\* C10: a pass only runs with a non-empty list of reference hashes: a missing
\* directory or one without a decodable image stops the process at startup,
\* an undecodable file among decodable ones is only skipped.
C10_NoPassWithoutRefs ==
  /\ Running => (refs # <<>> /\ refDir.exists /\ refs = DecodableRefs(refDir))
  /\ (~refDir.exists \/ DecodableRefs(refDir) = <<>>) => pc \in {"boot", "fatal_config", "fatal_refs"}
  /\ pc = "fatal_refs" => (~refDir.exists \/ DecodableRefs(refDir) = <<>>)

\* a pass runs although one file of the directory did not decode
C10_Witness ==
  /\ pc = "query"
  /\ \E i \in 1..Len(refDir.files) : refDir.files[i].ext /\ ~refDir.files[i].ok
  /\ Len(refs) < Len(refDir.files)

====
